---- MODULE Spec2Model ----
(***************************************************************************)
(* Model of the incremental ETL loop of main.py: the EtlThread background  *)
(* thread, its persisted cursor (table etl_cursor), the confirmation-lag   *)
(* window, the extract -> load marketplace -> load dshop -> set cursor     *)
(* sequence of _run, and the catch-all error handler.                      *)
(***************************************************************************)
EXTENDS Integers, Sequences, FiniteSets, TLC

\* ---------------------------------------------------------------- constants
\* main.py:26  RUN_INTERVAL_SEC
RUN_INTERVAL_SEC == 15
\* main.py:29  START_BLOCK_EPOCH
START_BLOCK_EPOCH == 10014455
\* main.py:32  JOB_BLOCK_LAG
JOB_BLOCK_LAG == 4

\* ------------------------------------------------------------------- bounds
\* Highest ledger tip the node reports, as blocks past the first tip that
\* opens a window (START_BLOCK_EPOCH + JOB_BLOCK_LAG).
MaxTipAhead == 2
\* Most rows one warehouse load job reports (job.output_rows).
MaxRows == 1
\* Most ticks (_run invocations) explored, over all runs of the process.
MaxTicks == 2
\* Most restarts of the process explored.
MaxRestarts == 1

\* Block numbers web3.eth.getBlock('latest') may report.  The lowest gives
\* end_block = START_BLOCK_EPOCH - 1, an empty window even on the first run.
Tips == (START_BLOCK_EPOCH + JOB_BLOCK_LAG - 1) ..
        (START_BLOCK_EPOCH + JOB_BLOCK_LAG + MaxTipAhead)

\* Sizes of an output file as _bigquery_load sees them (os.path.getsize, or 0
\* for a missing file): empty, or holding data.
FileSizes == {0, 1}

\* Row counts a completed load job may report.
OutputRows == 0 .. MaxRows

\* The calls of _run that can raise, used as the identity of the exception.
NoError == "None"

VARIABLES
    pc,                     \* position of the process / EtlThread
    alive,                  \* EtlThread.alive
    etl_cursor,             \* table etl_cursor: sequence of block_number, one per row
    cursors,                \* local `cursors` of _init_cursor (result of query.all())
    start_block,            \* EtlThread.start_block (0 before _init_cursor sets it)
    num_errors,             \* EtlThread.num_errors
    last_error,             \* EtlThread.last_error
    num_marketplace_rows,   \* EtlThread.num_marketplace_rows
    num_dshop_rows,         \* EtlThread.num_dshop_rows
    latest_block_number,    \* local of _run (0 outside _run)
    end_block,              \* local of _run (0 outside _run)
    exc,                    \* exception propagating to the except clause of _run
    marketplace_file,       \* size of JOB_MARKETPLACE_OUTPUT_FILENAME (0: missing or empty)
    dshop_file,             \* size of JOB_DSHOP_OUTPUT_FILENAME (0: missing or empty)
    wait_i,                 \* loop index i of _wait
    peer_pc,                \* position of a second instance of the process ("off": none)
    peer_cursors,           \* local `cursors` of the second instance's _init_cursor
    \* History variables: observation only, never read by the program.  Those
    \* describing one tick are set while it runs and dropped when the thread
    \* goes to sleep after it.
    pre,                    \* Snapshot taken when the tick started
    calls,                  \* calls made by the tick, in order
    bq_loads,               \* warehouse load jobs started by the tick
    tip,                    \* block number the tick read from the node, 0 if none
    extract_args,           \* <<start_block, end_block>> the tick passed to _extract
    ret_marketplace,        \* rows _load_marketplace returned in the tick
    raised,                 \* the call that raised in the tick, NoError if none
    tick_result,            \* "none" | "running" | "empty" | "committed" | "failed"
    retry_from,             \* start_block of the last failed tick not yet made good, 0 if none
    ticks,                  \* ticks started so far
    restarts,               \* restarts so far
    covered,                \* blocks of the windows extracted and loaded into both tables
    commit_tip              \* tip read by the tick that last committed the cursor, 0 if none

prog == <<pc, alive, etl_cursor, cursors, start_block, num_errors, last_error,
          num_marketplace_rows, num_dshop_rows, latest_block_number, end_block,
          exc, marketplace_file, dshop_file, wait_i>>
tickhist == <<pre, calls, bq_loads, tip, extract_args, ret_marketplace, raised,
              tick_result>>
hist == <<tickhist, retry_from, ticks, restarts, covered, commit_tip>>
peer == <<peer_pc, peer_cursors>>
vars == <<prog, peer, hist>>

\* Snapshot of the state a tick can change.
Snapshot ==
    [etl_cursor |-> etl_cursor, start_block |-> start_block,
     num_errors |-> num_errors, last_error |-> last_error,
     num_marketplace_rows |-> num_marketplace_rows,
     num_dshop_rows |-> num_dshop_rows]

\* ------------------------------------------------------------ pure helpers
\* Mutant of EndBlock: the lag is one block short.
EndBlockLagShort(latest) == latest - (JOB_BLOCK_LAG - 1)

\* Mutant of EndBlock: the confirmation lag is not subtracted.
EndBlockNoLag(latest) == latest

\* main.py:204  end_block = latest_block_number - JOB_BLOCK_LAG
EndBlock(latest) == latest - JOB_BLOCK_LAG

\* Mutant of WindowEmpty: the empty-window test is missing.
WindowEmptyNever(e, s) == FALSE

\* Mutant of WindowEmpty: the test is off by one block.
WindowEmptyOffByOne(e, s) == e < s - 1

\* main.py:206  if end_block < self.start_block: return
WindowEmpty(e, s) == e < s

\* Mutant of NextStartBlock: the block after the cursor is left out.
NextStartBlockSkips(b) == b + 2

\* Mutant of NextStartBlock: the cursor block itself is taken again.
NextStartBlockSame(b) == b

\* main.py:129 / main.py:134  start_block = block_number + 1
NextStartBlock(b) == b + 1

\* Mutant of FirstCursor: the new row is created at the epoch itself.
FirstCursorAtEpoch == START_BLOCK_EPOCH

\* main.py:124  cursor.block_number = START_BLOCK_EPOCH - 1
FirstCursor == START_BLOCK_EPOCH - 1

\* Mutant of NothingToLoad: the size test is missing, every file is uploaded.
NothingToLoadNever(data_size) == FALSE

\* main.py:162-163  data_size == 0: nothing to load
NothingToLoad(data_size) == data_size = 0

\* Mutant of CountError: the handler does not count the error.
CountErrorForgotten(n) == n

\* main.py:219  self.num_errors += 1
CountError(n) == n + 1

\* Mutant of AddRows: the counter is assigned (=) instead of added to (+=).
AddRowsAssigned(total, rows) == rows

\* main.py:212-213  self.num_..._rows += <rows returned by the load>
AddRows(total, rows) == total + rows

\* Mutant of RecordedError: the handler does not keep the exception.
RecordedErrorDropped(e) == NoError

\* main.py:220  self.last_error = e
RecordedError(e) == e

\* -------------------------------------------------------------------- Init
\* The process has been started against an empty database: the EtlThread
\* constructor is about to run _init_cursor.
Init ==
    /\ pc = "init_query"
    /\ alive = TRUE
    /\ etl_cursor = <<>>
    /\ cursors = <<>>
    /\ start_block = 0
    /\ num_errors = 0
    /\ last_error = NoError
    /\ num_marketplace_rows = 0
    /\ num_dshop_rows = 0
    /\ latest_block_number = 0
    /\ end_block = 0
    /\ exc = NoError
    /\ marketplace_file = 0
    /\ dshop_file = 0
    /\ wait_i = 0
    /\ pre = Snapshot
    /\ calls = <<>>
    /\ bq_loads = <<>>
    /\ tip = 0
    /\ extract_args = <<>>
    /\ ret_marketplace = 0
    /\ raised = NoError
    /\ tick_result = "none"
    /\ retry_from = 0
    /\ ticks = 0
    /\ restarts = 0
    /\ covered = {}
    /\ commit_tip = 0
    /\ peer_pc = "off"
    /\ peer_cursors = <<>>

\* The history of one tick, blank (stated last in an action: it reads the
\* new program state).
NoTickHistory ==
    /\ pre' = Snapshot'
    /\ calls' = <<>>
    /\ bq_loads' = <<>>
    /\ tip' = 0
    /\ extract_args' = <<>>
    /\ ret_marketplace' = 0
    /\ raised' = NoError
    /\ tick_result' = "none"

\* ------------------------------------------------------- process start-up
\* main.py:119  cursors = EtlCursor.query.all()
\* The query either returns the rows of the table or raises; an exception in
\* the constructor propagates out of the module and the process does not start.
InitCursorQuery ==
    /\ pc = "init_query"
    /\ \/ /\ cursors' = etl_cursor
          /\ pc' = "init_create"
       \/ /\ pc' = "crashed"
          /\ UNCHANGED cursors
    /\ UNCHANGED <<alive, etl_cursor, start_block, num_errors, last_error,
                   num_marketplace_rows, num_dshop_rows, latest_block_number,
                   end_block, exc, marketplace_file, dshop_file, wait_i, hist>>
    /\ UNCHANGED peer

\* main.py:120-129, then main.py:91-94 and thread.start() (main.py:251).
\* No row: insert one at START_BLOCK_EPOCH - 1 and commit.  Otherwise take
\* the first row.  Either way start_block = cursor.block_number + 1.
InitCursorCreate ==
    /\ pc = "init_create"
    /\ IF cursors = <<>>
       THEN \/ /\ etl_cursor' = Append(etl_cursor, FirstCursor)
               /\ start_block' = NextStartBlock(FirstCursor)
               /\ pc' = "loop"
            \/ /\ pc' = "crashed"          \* db.session.commit() raised
               /\ UNCHANGED <<etl_cursor, start_block>>
       ELSE /\ start_block' = NextStartBlock(cursors[1])
            /\ pc' = "loop"
            /\ UNCHANGED etl_cursor
    /\ cursors' = <<>>
    /\ num_errors' = 0
    /\ last_error' = NoError
    /\ num_marketplace_rows' = 0
    /\ num_dshop_rows' = 0
    /\ UNCHANGED <<alive, latest_block_number, end_block, exc, marketplace_file,
                   dshop_file, wait_i, retry_from, ticks, restarts,
                   covered, commit_tip>>
    /\ NoTickHistory
    /\ UNCHANGED peer

\* main.py:99-101  sig_handler, installed at main.py:253-254.
SigHandler ==
    /\ pc \notin {"init_query", "init_create", "crashed"}
    /\ alive = TRUE
    /\ alive' = FALSE
    /\ UNCHANGED <<pc, etl_cursor, cursors, start_block, num_errors, last_error,
                   num_marketplace_rows, num_dshop_rows, latest_block_number,
                   end_block, exc, marketplace_file, dshop_file, wait_i, hist>>
    /\ UNCHANGED peer

\* ----------------------------------------------------------------- the loop
\* main.py:111-113  while self.alive: ... self._run()
\* Entering _run starts a tick.
RunLoop ==
    /\ pc = "loop"
    /\ IF alive
       THEN /\ ticks < MaxTicks
            /\ pc' = "get_block"
            /\ ticks' = ticks + 1
            /\ pre' = Snapshot
            /\ tick_result' = "running"
            /\ UNCHANGED <<calls, bq_loads, tip, extract_args, ret_marketplace,
                           raised, retry_from, restarts,
                   covered, commit_tip>>
       ELSE /\ pc' = "done"
            /\ UNCHANGED hist
    /\ UNCHANGED <<alive, etl_cursor, cursors, start_block, num_errors, last_error,
                   num_marketplace_rows, num_dshop_rows, latest_block_number,
                   end_block, exc, marketplace_file, dshop_file, wait_i>>
    /\ UNCHANGED peer

\* main.py:114-115  _run has returned; the thread enters _wait.
EnterWait ==
    /\ pc = "returned"
    /\ pc' = "wait"
    /\ wait_i' = 0
    /\ UNCHANGED <<alive, etl_cursor, cursors, start_block, num_errors, last_error,
                   num_marketplace_rows, num_dshop_rows, latest_block_number,
                   end_block, exc, marketplace_file, dshop_file, retry_from,
                   ticks, restarts,
                   covered, commit_tip>>
    /\ NoTickHistory
    /\ UNCHANGED peer

\* main.py:105-108  _wait: one iteration that finds alive set and sleeps a second.
WaitSleep ==
    /\ pc = "wait"
    /\ wait_i < RUN_INTERVAL_SEC
    /\ alive
    /\ wait_i' = wait_i + 1
    /\ UNCHANGED <<pc, alive, etl_cursor, cursors, start_block, num_errors,
                   last_error, num_marketplace_rows, num_dshop_rows,
                   latest_block_number, end_block, exc, marketplace_file,
                   dshop_file, hist>>
    /\ UNCHANGED peer

\* Mutant of WaitReturn: the sleep does not look at alive.
WaitReturnUninterruptible ==
    /\ pc = "wait"
    /\ wait_i = RUN_INTERVAL_SEC
    /\ pc' = "loop"
    /\ wait_i' = 0
    /\ UNCHANGED <<alive, etl_cursor, cursors, start_block, num_errors,
                   last_error, num_marketplace_rows, num_dshop_rows,
                   latest_block_number, end_block, exc, marketplace_file,
                   dshop_file, hist>>
    /\ UNCHANGED peer

\* main.py:105-107  _wait returns: range exhausted, or alive is False (break).
WaitReturn ==
    /\ pc = "wait"
    /\ wait_i = RUN_INTERVAL_SEC \/ ~alive
    /\ pc' = "loop"
    /\ wait_i' = 0
    /\ UNCHANGED <<alive, etl_cursor, cursors, start_block, num_errors,
                   last_error, num_marketplace_rows, num_dshop_rows,
                   latest_block_number, end_block, exc, marketplace_file,
                   dshop_file, hist>>
    /\ UNCHANGED peer

\* --------------------------------------------------------------- one tick
\* A call inside the try block raised: control passes to the except clause.
Raise(call) ==
    /\ exc' = call
    /\ raised' = call
    /\ pc' = "except"

\* _run returns: its locals are gone.
Return(result) ==
    /\ pc' = "returned"
    /\ latest_block_number' = 0
    /\ end_block' = 0
    /\ tick_result' = result

\* main.py:200-207  read the tip, compute end_block, return on an empty window.
GetBlock ==
    /\ pc = "get_block"
    /\ calls' = Append(calls, "get_block")
    /\ \/ \E latest \in Tips :
            /\ tip' = latest
            /\ IF WindowEmpty(EndBlock(latest), start_block)
               THEN Return("empty")
               ELSE /\ latest_block_number' = latest
                    /\ end_block' = EndBlock(latest)
                    /\ pc' = "extract"
                    /\ UNCHANGED tick_result
            /\ UNCHANGED <<exc, raised>>
       \/ /\ Raise("get_block")
          /\ UNCHANGED <<latest_block_number, end_block, tip, tick_result>>
    /\ UNCHANGED <<alive, etl_cursor, cursors, start_block, num_errors, last_error,
                   num_marketplace_rows, num_dshop_rows, marketplace_file,
                   dshop_file, wait_i, pre, bq_loads, extract_args,
                   ret_marketplace, retry_from, ticks, restarts,
                   covered, commit_tip>>
    /\ UNCHANGED peer

\* Mutant of Extract: _run loads the dshop file first.
ExtractThenDshop ==
    /\ pc = "extract"
    /\ calls' = Append(calls, "extract")
    /\ extract_args' = <<start_block, end_block>>
    /\ \E m \in FileSizes, d \in FileSizes :
          /\ marketplace_file' = m
          /\ dshop_file' = d
    /\ \/ /\ pc' = "load_dshop"
          /\ UNCHANGED <<exc, raised>>
       \/ Raise("extract")
    /\ UNCHANGED <<alive, etl_cursor, cursors, start_block, num_errors, last_error,
                   num_marketplace_rows, num_dshop_rows, latest_block_number,
                   end_block, wait_i, pre, bq_loads, tip, ret_marketplace,
                   tick_result, retry_from, ticks, restarts,
                   covered, commit_tip>>
    /\ UNCHANGED peer

\* main.py:209 and 145-157  self._extract(self.start_block, end_block).
\* The job writes the two output files; when it raises, the files are left in
\* whatever state the job reached.
Extract ==
    /\ pc = "extract"
    /\ calls' = Append(calls, "extract")
    /\ extract_args' = <<start_block, end_block>>
    /\ \E m \in FileSizes, d \in FileSizes :
          /\ marketplace_file' = m
          /\ dshop_file' = d
    /\ \/ /\ pc' = "load_marketplace"
          /\ UNCHANGED <<exc, raised>>
       \/ Raise("extract")
    /\ UNCHANGED <<alive, etl_cursor, cursors, start_block, num_errors, last_error,
                   num_marketplace_rows, num_dshop_rows, latest_block_number,
                   end_block, wait_i, pre, bq_loads, tip, ret_marketplace,
                   tick_result, retry_from, ticks, restarts,
                   covered, commit_tip>>
    /\ UNCHANGED peer

\* Mutant of LoadMarketplace: a failed load job is logged but not re-raised
\* (main.py:183 missing), so _run goes on to the dshop load.
LoadMarketplaceSwallowed ==
    /\ pc = "load_marketplace"
    /\ calls' = Append(calls, "load_marketplace")
    /\ IF NothingToLoad(marketplace_file)
       THEN /\ ret_marketplace' = 0
            /\ num_marketplace_rows' = AddRows(num_marketplace_rows, 0)
            /\ pc' = "load_dshop"
            /\ UNCHANGED <<bq_loads, exc, raised>>
       ELSE /\ bq_loads' = Append(bq_loads, "marketplace")
            /\ \/ \E output_rows \in OutputRows :
                     /\ ret_marketplace' = output_rows
                     /\ num_marketplace_rows' = AddRows(num_marketplace_rows, output_rows)
                     /\ pc' = "load_dshop"
                     /\ UNCHANGED <<exc, raised>>
               \/ /\ raised' = "load_marketplace"
                  /\ pc' = "load_dshop"
                  /\ UNCHANGED <<exc, ret_marketplace, num_marketplace_rows>>
    /\ UNCHANGED <<alive, etl_cursor, cursors, start_block, num_errors, last_error,
                   num_dshop_rows, latest_block_number, end_block,
                   marketplace_file, dshop_file, wait_i, pre, tip, extract_args,
                   tick_result, retry_from, ticks, restarts,
                   covered, commit_tip>>
    /\ UNCHANGED peer

\* main.py:212 and 160-185  self.num_marketplace_rows += self._load_marketplace()
\* An empty or missing file returns 0 before any warehouse client is created;
\* otherwise a load job runs and either reports output_rows or raises.
LoadMarketplace ==
    /\ pc = "load_marketplace"
    /\ calls' = Append(calls, "load_marketplace")
    /\ IF NothingToLoad(marketplace_file)
       THEN /\ ret_marketplace' = 0
            /\ num_marketplace_rows' = AddRows(num_marketplace_rows, 0)
            /\ pc' = "load_dshop"
            /\ UNCHANGED <<bq_loads, exc, raised>>
       ELSE /\ bq_loads' = Append(bq_loads, "marketplace")
            /\ \/ \E output_rows \in OutputRows :
                     /\ ret_marketplace' = output_rows
                     /\ num_marketplace_rows' = AddRows(num_marketplace_rows, output_rows)
                     /\ pc' = "load_dshop"
                     /\ UNCHANGED <<exc, raised>>
               \/ /\ Raise("load_marketplace")
                  /\ UNCHANGED <<ret_marketplace, num_marketplace_rows>>
    /\ UNCHANGED <<alive, etl_cursor, cursors, start_block, num_errors, last_error,
                   num_dshop_rows, latest_block_number, end_block,
                   marketplace_file, dshop_file, wait_i, pre, tip, extract_args,
                   tick_result, retry_from, ticks, restarts,
                   covered, commit_tip>>
    /\ UNCHANGED peer

\* main.py:213 and 160-185  self.num_dshop_rows += self._load_dshop()
LoadDshop ==
    /\ pc = "load_dshop"
    /\ calls' = Append(calls, "load_dshop")
    /\ IF NothingToLoad(dshop_file)
       THEN /\ num_dshop_rows' = AddRows(num_dshop_rows, 0)
            /\ pc' = "set_cursor"
            /\ covered' = covered \cup (extract_args[1] .. extract_args[2])
            /\ UNCHANGED <<bq_loads, exc, raised>>
       ELSE /\ bq_loads' = Append(bq_loads, "dshop")
            /\ \/ \E output_rows \in OutputRows :
                     /\ num_dshop_rows' = AddRows(num_dshop_rows, output_rows)
                     /\ pc' = "set_cursor"
                     /\ covered' = covered \cup (extract_args[1] .. extract_args[2])
                     /\ UNCHANGED <<exc, raised>>
               \/ /\ Raise("load_dshop")
                  /\ UNCHANGED <<num_dshop_rows, covered>>
    /\ UNCHANGED <<alive, etl_cursor, cursors, start_block, num_errors, last_error,
                   num_marketplace_rows, latest_block_number, end_block,
                   marketplace_file, dshop_file, wait_i, pre, tip, extract_args,
                   ret_marketplace, tick_result, retry_from, ticks, restarts,
                   commit_tip>>
    /\ UNCHANGED peer

\* Mutant of SetCursor: the row is never committed (main.py:139-141 missing).
SetCursorNoCommit ==
    /\ pc = "set_cursor"
    /\ calls' = Append(calls, "set_cursor")
    /\ start_block' = NextStartBlock(end_block)
    /\ Return("committed")
    /\ retry_from' = 0
    /\ commit_tip' = tip
    /\ UNCHANGED <<etl_cursor, exc, raised>>
    /\ UNCHANGED <<alive, cursors, num_errors, last_error, num_marketplace_rows,
                   num_dshop_rows, marketplace_file, dshop_file, wait_i, pre,
                   bq_loads, tip, extract_args, ret_marketplace, ticks, restarts,
                   covered>>
    /\ UNCHANGED peer

\* main.py:216 and 132-142  self._set_cursor(end_block)
\* Line 134 assigns start_block before the table is touched.  Then the query
\* or the commit may raise (store unavailable), an empty result raises
\* (line 137), and otherwise the first row is updated and committed and _run
\* returns.
SetCursor ==
    /\ pc = "set_cursor"
    /\ calls' = Append(calls, "set_cursor")
    /\ start_block' = NextStartBlock(end_block)
    /\ \/ /\ Raise("set_cursor")
          /\ UNCHANGED <<etl_cursor, latest_block_number, end_block, tick_result,
                         retry_from, commit_tip>>
       \/ /\ etl_cursor # <<>>
          /\ etl_cursor' = [etl_cursor EXCEPT ![1] = end_block]
          /\ Return("committed")
          /\ retry_from' = 0
          /\ commit_tip' = tip
          /\ UNCHANGED <<exc, raised>>
    /\ UNCHANGED <<alive, cursors, num_errors, last_error, num_marketplace_rows,
                   num_dshop_rows, marketplace_file, dshop_file, wait_i, pre,
                   bq_loads, tip, extract_args, ret_marketplace, ticks, restarts,
                   covered>>
    /\ UNCHANGED peer

\* Mutant of ExceptHandler: the exception is counted and raised again, which
\* ends the thread.
ExceptHandlerReraises ==
    /\ pc = "except"
    /\ num_errors' = CountError(num_errors)
    /\ last_error' = RecordedError(exc)
    /\ pc' = "done"
    /\ latest_block_number' = 0
    /\ end_block' = 0
    /\ tick_result' = "failed"
    /\ retry_from' = pre.start_block
    /\ UNCHANGED <<alive, etl_cursor, cursors, start_block, num_marketplace_rows,
                   num_dshop_rows, marketplace_file, dshop_file, wait_i, exc, pre,
                   calls, bq_loads, tip, extract_args, ret_marketplace, raised,
                   ticks, restarts, covered, commit_tip>>
    /\ UNCHANGED peer

\* main.py:217-220  except Exception as e: count it, remember it; _run returns.
ExceptHandler ==
    /\ pc = "except"
    /\ num_errors' = CountError(num_errors)
    /\ last_error' = RecordedError(exc)
    /\ exc' = NoError
    /\ Return("failed")
    /\ retry_from' = pre.start_block
    /\ UNCHANGED <<alive, etl_cursor, cursors, start_block, num_marketplace_rows,
                   num_dshop_rows, marketplace_file, dshop_file, wait_i, pre,
                   calls, bq_loads, tip, extract_args, ret_marketplace, raised,
                   ticks, restarts,
                   covered, commit_tip>>
    /\ UNCHANGED peer

\* ------------------------------------------------------------------ restart
\* The process ends (at any point) and is started again: main.py:249-251 run
\* anew.  Memory is lost; the table and the output files stay.
Restart ==
    /\ pc # "init_query"
    /\ restarts < MaxRestarts
    /\ restarts' = restarts + 1
    /\ pc' = "init_query"
    /\ alive' = TRUE
    /\ cursors' = <<>>
    /\ start_block' = 0
    /\ num_errors' = 0
    /\ last_error' = NoError
    /\ num_marketplace_rows' = 0
    /\ num_dshop_rows' = 0
    /\ latest_block_number' = 0
    /\ end_block' = 0
    /\ exc' = NoError
    /\ wait_i' = 0
    /\ retry_from' = 0
    /\ UNCHANGED <<etl_cursor, marketplace_file, dshop_file, ticks, covered,
                   commit_tip>>
    /\ NoTickHistory
    /\ UNCHANGED peer

\* ---------------------------------------------------------- second instance
\* main.py:249-250  a second instance of the process is started against the
\* same database (another worker importing the module); its constructor is
\* about to run _init_cursor.
PeerStart ==
    /\ peer_pc = "off"
    /\ peer_pc' = "init_query"
    /\ UNCHANGED <<prog, peer_cursors, hist>>

\* main.py:119 in the second instance.
PeerInitCursorQuery ==
    /\ peer_pc = "init_query"
    /\ \/ /\ peer_cursors' = etl_cursor
          /\ peer_pc' = "init_create"
       \/ /\ peer_pc' = "crashed"
          /\ UNCHANGED peer_cursors
    /\ UNCHANGED <<prog, hist>>

\* main.py:120-129 in the second instance: it inserts a row when its own
\* query found none.  Nothing in the code or the table (main.py:239-243: only
\* the id is a key) stops a second insert.
PeerInitCursorCreate ==
    /\ peer_pc = "init_create"
    /\ IF peer_cursors = <<>>
       THEN \/ /\ etl_cursor' = Append(etl_cursor, FirstCursor)
               /\ peer_pc' = "started"
            \/ /\ peer_pc' = "crashed"
               /\ UNCHANGED etl_cursor
       ELSE /\ peer_pc' = "started"
            /\ UNCHANGED etl_cursor
    /\ peer_cursors' = <<>>
    /\ UNCHANGED <<pc, alive, cursors, start_block, num_errors, last_error,
                   num_marketplace_rows, num_dshop_rows, latest_block_number,
                   end_block, exc, marketplace_file, dshop_file, wait_i, hist>>

\* One step of the EtlThread (constructor included).
ThreadStep ==
    \/ InitCursorQuery
    \/ InitCursorCreate
    \/ RunLoop
    \/ EnterWait
    \/ WaitSleep
    \/ WaitReturn
    \/ GetBlock
    \/ Extract
    \/ LoadMarketplace
    \/ LoadDshop
    \/ SetCursor
    \/ ExceptHandler

Next ==
    \/ InitCursorQuery
    \/ InitCursorCreate
    \/ SigHandler
    \/ RunLoop
    \/ EnterWait
    \/ WaitSleep
    \/ WaitReturn
    \/ GetBlock
    \/ Extract
    \/ LoadMarketplace
    \/ LoadDshop
    \/ SetCursor
    \/ ExceptHandler
    \/ Restart

Spec == Init /\ [][Next]_vars

\* Two instances of the process started against the same database.
NextTwoInit ==
    \/ Next
    \/ PeerStart
    \/ PeerInitCursorQuery
    \/ PeerInitCursorCreate

SpecTwoInit == Init /\ [][NextTwoInit]_vars

\* One run of the process, never killed, with the thread scheduled fairly:
\* a thread that can take a step eventually takes one (every call returns).
NextLive ==
    \/ ThreadStep
    \/ SigHandler

LiveSpec == Init /\ [][NextLive]_vars /\ WF_vars(ThreadStep)

\* ================================================================== claims
Range(seq) == {seq[i] : i \in DOMAIN seq}

\* _run has just returned: the tick is over and its history is still there.
TickOver == pc = "returned"

\* The thread is between two ticks.
Idle == pc \in {"returned", "wait", "loop"}

\* The tick left the cursor, persisted and in memory, as it found it.
CursorUntouched ==
    /\ etl_cursor = pre.etl_cursor
    /\ start_block = pre.start_block

\* C1: the persisted cursor block number never decreases, whatever the ticks
\* do and however the tip moves.
C1_CursorNeverDecreases ==
    [][(etl_cursor # <<>> /\ etl_cursor' # <<>>) => etl_cursor'[1] >= etl_cursor[1]]_vars

\* C1 witness: the cursor was advanced, and a later tick has read a tip whose
\* safe end lies below it.
C1_Witness ==
    /\ TickOver
    /\ tip # 0
    /\ etl_cursor # <<>>
    /\ etl_cursor[1] > START_BLOCK_EPOCH - 1
    /\ tip - JOB_BLOCK_LAG < etl_cursor[1]

\* C2: once the row exists, the table changes only in the commit step of a
\* tick whose tip read, extraction and two loads were all made and none
\* raised; the value written is that tick's tip - JOB_BLOCK_LAG, and the
\* tick is over with that write (so it writes at most once).
C2_CursorWrittenOnlyOnFullSuccess ==
    [][(etl_cursor' # etl_cursor /\ pc # "init_create") =>
         /\ pc = "set_cursor"
         /\ tick_result = "running"
         /\ calls = <<"get_block", "extract", "load_marketplace", "load_dshop">>
         /\ raised = NoError
         /\ etl_cursor # <<>>
         /\ etl_cursor' = [etl_cursor EXCEPT ![1] = tip - JOB_BLOCK_LAG]
         /\ pc' = "returned"
         /\ tick_result' = "committed"]_vars

\* C2 witness: a tick has committed, and the table holds its safe end.
C2_Witness ==
    /\ TickOver
    /\ tick_result = "committed"
    /\ etl_cursor # pre.etl_cursor
    /\ etl_cursor[1] = tip - JOB_BLOCK_LAG

\* C3 (as claimed): a tick whose cursor commit raised leaves the persisted
\* cursor and the in-memory start_block as they were before the tick.
C3_CommitFailureChangesNothing ==
    (TickOver /\ raised = "set_cursor") => CursorUntouched

\* C4 (as claimed): a failed tick leaves the table unchanged, and the next
\* extraction after a failed tick starts at the failed tick's start block.
C4_FailedRangeRetried ==
    /\ (TickOver /\ tick_result = "failed") => etl_cursor = pre.etl_cursor
    /\ (tick_result = "running" /\ extract_args # <<>> /\ retry_from # 0)
          => extract_args[1] = retry_from

\* C5 (as claimed): between ticks, start_block is the persisted cursor plus one.
C5_StartBlockIsCursorPlusOne ==
    Idle => (etl_cursor # <<>> /\ start_block = etl_cursor[1] + 1)

\* C6: a tick that read a tip with tip - JOB_BLOCK_LAG < start_block returned
\* at once: its only call is the tip read, no load job started, and cursor,
\* start_block, error count, last error and both row counters are as before.
C6_EmptyWindowIsNoOp ==
    (tip # 0 /\ tip - JOB_BLOCK_LAG < pre.start_block) =>
        /\ TickOver
        /\ tick_result = "empty"
        /\ calls = <<"get_block">>
        /\ bq_loads = <<>>
        /\ Snapshot = pre

\* C6 witness: an empty-window tick ended, in a process that already counted
\* an error.
C6_Witness ==
    /\ TickOver
    /\ tick_result = "empty"
    /\ tip - JOB_BLOCK_LAG < pre.start_block
    /\ num_errors > 0

\* C7: when extraction raised, no load is called in that tick, the cursor is
\* untouched, and the tick ends with the error count one higher.
C7_ExtractionFailure ==
    raised = "extract" =>
        /\ "load_marketplace" \notin Range(calls)
        /\ "load_dshop" \notin Range(calls)
        /\ bq_loads = <<>>
        /\ CursorUntouched
        /\ pc \in {"except", "returned"}
        /\ TickOver => num_errors = pre.num_errors + 1

\* C7 witness: a tick ended by a failed extraction.
C7_Witness ==
    /\ TickOver
    /\ raised = "extract"
    /\ calls = <<"get_block", "extract">>

\* C8: when the marketplace load raised, the dshop load is not called in that
\* tick, the cursor is untouched, the marketplace row counter is unchanged,
\* and the tick ends with the error count one higher.
C8_MarketplaceLoadFailure ==
    raised = "load_marketplace" =>
        /\ "load_dshop" \notin Range(calls)
        /\ CursorUntouched
        /\ num_marketplace_rows = pre.num_marketplace_rows
        /\ pc \in {"except", "returned"}
        /\ TickOver => num_errors = pre.num_errors + 1

\* C8 witness: a tick ended by a failed marketplace load job.
C8_Witness ==
    /\ TickOver
    /\ raised = "load_marketplace"
    /\ bq_loads = <<"marketplace">>

\* C9: when the dshop load raised (the marketplace load having returned), the
\* cursor is untouched, the rows the marketplace load returned stay in the
\* marketplace counter, and the tick ends with the error count one higher.
C9_DshopLoadFailure ==
    raised = "load_dshop" =>
        /\ "load_marketplace" \in Range(calls)
        /\ CursorUntouched
        /\ num_marketplace_rows = pre.num_marketplace_rows + ret_marketplace
        /\ pc \in {"except", "returned"}
        /\ TickOver => num_errors = pre.num_errors + 1

\* C9 witness: a retry tick is ended by a failed dshop load after marketplace
\* loads added rows in both it and an earlier tick.
C9_Witness ==
    /\ TickOver
    /\ raised = "load_dshop"
    /\ ret_marketplace > 0
    /\ pre.num_marketplace_rows > 0
    /\ num_marketplace_rows = pre.num_marketplace_rows + ret_marketplace

\* C10: when the tip read raised, the tick makes no other call, the cursor is
\* untouched, and the tick ends with the error count one higher and the
\* exception kept as last_error.
C10_TipReadFailure ==
    raised = "get_block" =>
        /\ calls = <<"get_block">>
        /\ bq_loads = <<>>
        /\ CursorUntouched
        /\ pc \in {"except", "returned"}
        /\ TickOver => /\ num_errors = pre.num_errors + 1
                       /\ last_error = "get_block"

\* C10 witness: a tick ended by a failed tip read, after an earlier failure
\* of another call.
C10_Witness ==
    /\ TickOver
    /\ raised = "get_block"
    /\ pre.last_error \notin {NoError, "get_block"}
    /\ last_error = "get_block"

\* C11: _init_cursor on an empty table creates one row at
\* START_BLOCK_EPOCH - 1 and start_block reads START_BLOCK_EPOCH; on a table
\* that has a row it leaves the table alone and start_block reads the row's
\* block number plus one.
C11_StartupLoad ==
    [][(pc = "init_create" /\ pc' = "loop") =>
         IF etl_cursor = <<>>
         THEN /\ etl_cursor' = <<START_BLOCK_EPOCH - 1>>
              /\ start_block' = START_BLOCK_EPOCH
         ELSE /\ etl_cursor' = etl_cursor
              /\ start_block' = etl_cursor[1] + 1]_vars

\* C11 witness: the process was restarted after the cursor had advanced, and
\* its constructor has finished.
C11_Witness ==
    /\ pc = "loop"
    /\ restarts > 0
    /\ ticks > 0
    /\ etl_cursor # <<>>
    /\ etl_cursor[1] > START_BLOCK_EPOCH - 1
    /\ start_block = etl_cursor[1] + 1
    /\ tick_result = "none"

\* C12 (as claimed): two initializations against an empty table never
\* create two rows.
C12_NoDoubleCreate ==
    Len(etl_cursor) <= 1

\* The calls of one tick, in the order of main.py:200-216.
TickOrder == <<"get_block", "extract", "load_marketplace", "load_dshop", "set_cursor">>

\* How many times `call` occurs in the tick's calls.
Count(call) == Cardinality({i \in DOMAIN calls : calls[i] = call})

\* C13: whenever _extract has been called in a tick, it was called once, with
\* the range [start_block, tip - JOB_BLOCK_LAG], start <= end; and a tick
\* that committed left the cursor at tip - JOB_BLOCK_LAG and start_block one
\* above it.
C13_WindowAndAdvance ==
    /\ extract_args # <<>> =>
          /\ extract_args = <<pre.start_block, tip - JOB_BLOCK_LAG>>
          /\ extract_args[1] <= extract_args[2]
          /\ Count("extract") = 1
    /\ (TickOver /\ tick_result = "committed") =>
          /\ etl_cursor[1] = tip - JOB_BLOCK_LAG
          /\ start_block = tip - JOB_BLOCK_LAG + 1

\* C13 witness: a tick extracted a window of more than one block that starts
\* right after the cursor, and committed it.
C13_Witness ==
    /\ TickOver
    /\ tick_result = "committed"
    /\ extract_args = <<pre.etl_cursor[1] + 1, tip - JOB_BLOCK_LAG>>
    /\ extract_args[1] < extract_args[2]
    /\ etl_cursor[1] = extract_args[2]
    /\ start_block = extract_args[2] + 1

\* C14: a load called on an empty or missing file starts no warehouse job,
\* leaves its row counter alone and does not raise, and the tick goes on; if
\* no other call of the tick raises, the tick ends committed at
\* tip - JOB_BLOCK_LAG with no error counted.
C14_EmptyDatasetIsSuccess ==
    /\ ("load_marketplace" \in Range(calls) /\ marketplace_file = 0) =>
          /\ "marketplace" \notin Range(bq_loads)
          /\ num_marketplace_rows = pre.num_marketplace_rows
          /\ raised # "load_marketplace"
          /\ pc = "load_dshop" \/ "load_dshop" \in Range(calls)
    /\ ("load_dshop" \in Range(calls) /\ dshop_file = 0) =>
          /\ "dshop" \notin Range(bq_loads)
          /\ num_dshop_rows = pre.num_dshop_rows
          /\ raised # "load_dshop"
          /\ pc = "set_cursor" \/ "set_cursor" \in Range(calls)
    /\ (/\ TickOver
        /\ raised = NoError
        /\ \/ "load_marketplace" \in Range(calls) /\ marketplace_file = 0
           \/ "load_dshop" \in Range(calls) /\ dshop_file = 0) =>
          /\ tick_result = "committed"
          /\ etl_cursor[1] = tip - JOB_BLOCK_LAG
          /\ num_errors = pre.num_errors

\* C14 witness: extraction left listings but no products; the marketplace
\* load uploaded rows, the dshop load did nothing, and the tick committed.
C14_Witness ==
    /\ TickOver
    /\ tick_result = "committed"
    /\ dshop_file = 0
    /\ marketplace_file # 0
    /\ bq_loads = <<"marketplace">>
    /\ calls = TickOrder
    /\ num_dshop_rows = pre.num_dshop_rows
    /\ num_errors = pre.num_errors
    /\ etl_cursor[1] = tip - JOB_BLOCK_LAG

\* C15: the calls of a tick are always a prefix of tip read, extraction,
\* marketplace load, dshop load, cursor commit; a call is made only while the
\* tick is running and no earlier call of it has raised; and a tick starts
\* only from the loop head, after the previous tick's _run has returned.
C15_SequentialCalls ==
    [][/\ calls' = SubSeq(TickOrder, 1, Len(calls'))
       /\ Len(calls') > Len(calls) =>
             /\ raised = NoError
             /\ tick_result = "running"
             /\ Len(calls') = Len(calls) + 1
       /\ ticks' # ticks =>
             /\ pc = "loop"
             /\ tick_result # "running"
             /\ calls' = <<>>]_vars

\* C15 witness: a tick made all five calls.
C15_Witness ==
    /\ TickOver
    /\ calls = TickOrder
    /\ ticks = 2

\* C18: every block from START_BLOCK_EPOCH up to the persisted cursor, and
\* every block below start_block, lies in a window that one tick extracted
\* and loaded into both tables.
C18_NoGaps ==
    /\ etl_cursor # <<>> =>
          \A b \in START_BLOCK_EPOCH .. etl_cursor[1] : b \in covered
    /\ \A b \in START_BLOCK_EPOCH .. (start_block - 1) : b \in covered

\* C18 witness: a tick's commit failed, and the next tick of the same
\* process, extracting only from the block after the failed window,
\* committed: the cursor moved over blocks loaded by the failed tick.
C18_Witness ==
    /\ TickOver
    /\ tick_result = "committed"
    /\ pre.etl_cursor[1] = START_BLOCK_EPOCH - 1
    /\ extract_args[1] > START_BLOCK_EPOCH
    /\ etl_cursor[1] >= extract_args[1]
    /\ covered = START_BLOCK_EPOCH .. etl_cursor[1]

\* C19: the persisted cursor is START_BLOCK_EPOCH - 1 or the tip read by the
\* tick that committed it, less JOB_BLOCK_LAG.
C19_ConfirmationLag ==
    etl_cursor # <<>> =>
        \/ /\ commit_tip = 0
           /\ etl_cursor[1] = START_BLOCK_EPOCH - 1
        \/ /\ commit_tip \in Tips
           /\ etl_cursor[1] = commit_tip - JOB_BLOCK_LAG

\* C19 witness: two ticks have committed, the second on a higher tip.
C19_Witness ==
    /\ TickOver
    /\ tick_result = "committed"
    /\ ticks = 2
    /\ pre.etl_cursor[1] > START_BLOCK_EPOCH - 1
    /\ commit_tip = tip
    /\ etl_cursor[1] = commit_tip - JOB_BLOCK_LAG

\* The positions of the thread inside _run.
TickPcs == {"get_block", "extract", "load_marketplace", "load_dshop",
            "set_cursor", "except"}

\* The thread is inside _run.
InTick == pc \in TickPcs

\* C16: the signal handler changes nothing but the flag; with the flag down,
\* a tick in flight goes on inside _run until it returns, _wait sleeps no
\* more and returns, the loop head ends the thread, no tick is started; and
\* under fair scheduling the thread ends.
C16_Shutdown ==
    /\ [][/\ alive' # alive =>
                /\ ~alive'
                /\ UNCHANGED <<pc, etl_cursor, start_block, wait_i, hist>>
          /\ (~alive /\ InTick) => pc' \in TickPcs \cup {"returned"}
          /\ (~alive /\ pc = "wait") => (wait_i' = wait_i \/ pc' = "loop")
          /\ (~alive /\ pc = "loop") => pc' \in {"loop", "done"}
          /\ ticks' # ticks => alive]_vars
    /\ (~alive ~> pc = "done")

\* C16 witness: the thread has ended on the flag, with ticks to spare, after
\* a tick that committed.
C16_Witness ==
    /\ pc = "done"
    /\ ~alive
    /\ ticks < MaxTicks
    /\ commit_tip # 0

\* C17: the thread ends only with the flag down; a call that raised leads
\* only to the handler and the return of _run; and under fair scheduling a
\* failed tick is followed by another tick unless the flag goes down.
C17_ErrorsDoNotStopTheLoop ==
    /\ [](pc = "done" => ~alive)
    /\ [](raised # NoError => pc \in {"except", "returned"})
    /\ \A n \in 1 .. (MaxTicks - 1) :
          (TickOver /\ tick_result = "failed" /\ ticks = n)
             ~> (~alive \/ (ticks = n + 1 /\ tick_result = "running"))

\* C17 witness: a tick is running in a process that counted an error in an
\* earlier tick.
C17_Witness ==
    /\ tick_result = "running"
    /\ pc = "get_block"
    /\ ticks = 2
    /\ restarts = 0
    /\ num_errors = 1
    /\ alive

\* C20: under fair scheduling, from any point between ticks (with a tick
\* left within the bound) the flag goes down, or the next tick runs and a
\* call of it raises, or it reads a tip whose window is empty, or it ends
\* with the cursor committed at tip - JOB_BLOCK_LAG.
C20_Progress ==
    \A n \in 0 .. (MaxTicks - 1) :
        (Idle /\ ticks = n)
           ~> \/ ~alive
              \/ /\ ticks = n + 1
                 /\ \/ raised # NoError
                    \/ tip # 0 /\ tip - JOB_BLOCK_LAG < pre.start_block
                    \/ /\ tick_result = "committed"
                       /\ etl_cursor[1] = tip - JOB_BLOCK_LAG

\* C20 witness: after a failed tick, with the flag still set, the next tick
\* found a window and committed it.
C20_Witness ==
    /\ TickOver
    /\ alive
    /\ restarts = 0
    /\ ticks = 2
    /\ pre.num_errors = 1
    /\ tip - JOB_BLOCK_LAG >= pre.start_block
    /\ tick_result = "committed"
    /\ etl_cursor[1] = tip - JOB_BLOCK_LAG

====
